---- MODULE Spec2Model ----
(***************************************************************************)
(* Model of src/app.py: the task pipeline get_tasks_data (authenticate,    *)
(* fetch, cross-reference, per-task metrics, statistics) and the date      *)
(* helpers calculate_working_days / calculate_calendar_days.               *)
(*                                                                         *)
(* Conventions                                                             *)
(*   - JSON false / an absent many2one is the empty tuple Falsy; a set     *)
(*     many2one is the pair <<id, name>> (Python indexes it [0], [1]).     *)
(*   - Python None is the id 0 (record ids are positive).                  *)
(*   - A datetime is [day, tod, aware]: day counts calendar days from      *)
(*     Monday 2024-06-10, tod is the time of day in slots, aware tells a   *)
(*     timezone-aware value from a naive one.                              *)
(*   - A percentage is kept in tenths (333 is 33.3).                       *)
(***************************************************************************)
EXTENDS Integers, Sequences, FiniteSets, TLC

VARIABLES
    pc,              \* position of the run inside get_tasks_data
    calls,           \* the json_rpc calls issued so far, in order
    uid,             \* local uid
    tasks,           \* local tasks
    projects,        \* local projects
    users,           \* local users
    task_stages,     \* local task_stages
    project_stages,  \* local project_stages
    current_time,    \* local current_time (datetime.now())
    result,          \* the value get_tasks_data returned
    wd,              \* one call of the date helpers: arguments and results
    pct              \* one pass of the percentage loop: stage_stats and
                     \* stage_percentages

vars == <<pc, calls, uid, tasks, projects, users, task_stages, project_stages,
          current_time, result, wd, pct>>

helper_vars == <<wd, pct>>

run_vars == <<pc, calls, uid, tasks, projects, users, task_stages,
              project_stages, current_time, result>>

(***************************************************************************)
(* Bounds                                                                  *)
(***************************************************************************)
MaxTasks == 2
MaxDay == 7
MaxTod == 1
MaxStageTotal == 16

(***************************************************************************)
(* Values                                                                  *)
(***************************************************************************)
Falsy == <<>>
Truthy(v) == v # Falsy
None == 0

Stamp(d, t, a) == [day |-> d, tod |-> t, aware |-> a]
NoTime == Stamp(0, 0, FALSE)

\* datetime.weekday(): Monday is 0, Sunday is 6; day 0 is a Monday
weekday(dt) == dt.day % 7

\* datetime.date()
date(dt) == dt.day

\* datetime + timedelta(days = n)
plus_days(dt, n) == [dt EXCEPT !.day = @ + n]

\* datetime < datetime (both naive, or both aware)
dt_lt(a, b) == a.day < b.day \/ (a.day = b.day /\ a.tod < b.tod)
dt_ge(a, b) == ~dt_lt(a, b)

\* comparing a naive with an aware datetime raises TypeError
dt_compare_raises(a, b) == a.aware # b.aware

(***************************************************************************)
(* Date helpers                                                            *)
(***************************************************************************)
RECURSIVE working_days_loop(_, _, _)
working_days_loop(current_date, end_date, working_days) ==
    IF dt_lt(current_date, end_date)
    THEN working_days_loop(plus_days(current_date, 1), end_date,
                           IF weekday(current_date) < 5
                           THEN working_days + 1 ELSE working_days)
    ELSE working_days

calculate_working_days(start_date, end_date) ==
    IF dt_ge(start_date, end_date) THEN 0
    ELSE working_days_loop(start_date, end_date, 0)

calculate_calendar_days(start_date, end_date) ==
    IF dt_ge(start_date, end_date) THEN 0
    ELSE date(end_date) - date(start_date)

is_today(date_to_check, current_date) == date(date_to_check) = date(current_date)

is_weekend(date_to_check) == weekday(date_to_check) >= 5

(***************************************************************************)
(* The remote backend: what json_rpc can hand back                         *)
(***************************************************************************)
\* project.project records held by the backend: one with a manager and a
\* project stage, one with neither
RemoteProjects ==
    (1 :> [id |-> 1, name |-> "Website", user_id |-> <<1, "Alice">>,
           stage_id |-> <<1, "Running">>]) @@
    (2 :> [id |-> 2, name |-> "Intranet", user_id |-> Falsy,
           stage_id |-> Falsy])

RemoteUsers == (1 :> [id |-> 1, name |-> "Alice"])

RemoteTaskStages == (7 :> [id |-> 7, name |-> "Review"])

RemoteProjectStages == (1 :> [id |-> 1, name |-> "Running"])

\* date_deadline strings: "2024-06-08", "2024-06-14 12:00:00" and
\* "2024-06-14T00:00:00Z" (z: the string ends in Z)
Deadlines ==
    << [day |-> -2, tod |-> 0, z |-> FALSE],
       [day |-> 4, tod |-> 1, z |-> FALSE],
       [day |-> 4, tod |-> 0, z |-> TRUE] >>

\* values datetime.now() takes: Monday 2024-06-10 in the afternoon and
\* Friday 2024-06-14 at midnight
NowValues == { Stamp(0, 1, FALSE), Stamp(4, 0, FALSE) }

TaskStates == <<"01_in_progress", "1_canceled">>

\* the project.task records the backend can hold, numbered from 0: every
\* combination of project, deadline, state and closed flag; the tasks of
\* project 1 carry a stage and an assignee, those of project 2 neither
NumShapes == Cardinality(DOMAIN RemoteProjects) * Len(Deadlines)
             * Len(TaskStates) * 2

TaskShape(k) ==
    LET c == k % 2 = 1
        s == TaskStates[((k \div 2) % Len(TaskStates)) + 1]
        d == Deadlines[((k \div (2 * Len(TaskStates))) % Len(Deadlines)) + 1]
        p == (k \div (2 * Len(TaskStates) * Len(Deadlines))) + 1
    IN [project_id |-> <<p, RemoteProjects[p].name>>,
        stage_id |-> IF p = 1 THEN <<7, "Review">> ELSE Falsy,
        user_ids |-> IF p = 1 THEN <<1>> ELSE <<>>,
        date_deadline |-> d, state |-> s, is_closed |-> c]

WithId(shape, i) ==
    [id |-> i, name |-> "Task", project_id |-> shape.project_id,
     stage_id |-> shape.stage_id, date_deadline |-> shape.date_deadline,
     user_ids |-> shape.user_ids, state |-> shape.state,
     is_closed |-> shape.is_closed]

\* the lists search_read can return: up to MaxTasks records, in the
\* backend's order (the order of their numbers)
TaskLists ==
    UNION { { [i \in 1..n |-> WithId(TaskShape(f[i]), i)]
              : f \in { g \in [1..n -> 0..(NumShapes - 1)] :
                          \A i \in 1..(n - 1) : g[i] <= g[i + 1] } }
            : n \in 0..MaxTasks }

\* the ids of a set in ascending order
RECURSIVE Sorted(_)
Sorted(S) ==
    IF S = {} THEN <<>>
    ELSE LET m == CHOOSE x \in S : \A y \in S : x <= y
         IN <<m>> \o Sorted(S \ {m})

\* a read answers with the records of those requested ids the backend holds
\* and lets the caller see
ReadResponses(remote, ids) ==
    { [k \in 1..Cardinality(S) |-> remote[Sorted(S)[k]]]
      : S \in SUBSET (ids \cap DOMAIN remote) }

\* the session ids authenticate answers with: false (rejected) or a user id
UidValues == {0, 2}

(***************************************************************************)
(* json_rpc (src/app.py 70-97): one POST; the result, or an exception      *)
(***************************************************************************)
RpcFailures == {"HTTPError", "JSONDecodeError", "JSON-RPC call failed."}
RpcOutcomes == {"ok"} \cup RpcFailures

\* one entry of the call log: the request, how it ended and how many
\* records (for authenticate: session ids) it returned
Call(model, method, ids, outcome, response) ==
    [model |-> model, method |-> method, ids |-> ids, outcome |-> outcome,
     returned |-> IF outcome = "ok" THEN Len(response) ELSE 0]

json_rpc(model, method, ids, outcome, response) ==
    calls' = Append(calls, Call(model, method, ids, outcome, response))

(***************************************************************************)
(* get_tasks_data: the result of the except branch (409-422)               *)
(***************************************************************************)
NoResult == [pending |-> TRUE]

\* the except branch, had it reported what was fetched so far
ErrorResult_Partial(message) ==
    [tasks |-> tasks,
     statistics |-> [total |-> Len(tasks), done |-> 0, cancelled |-> 0,
                     overdue |-> 0, in_progress |-> Len(tasks)],
     stage_statistics |-> <<>>,
     error |-> message]

ErrorResult(message) ==
    [tasks |-> <<>>,
     statistics |-> [total |-> 0, done |-> 0, cancelled |-> 0, overdue |-> 0,
                     in_progress |-> 0],
     stage_statistics |-> <<>>,
     error |-> message]

\* the except branch returns; the locals of the abandoned try body go
Except(message) ==
    /\ result' = ErrorResult(message)
    /\ pc' = "returned"
    /\ uid' = 0
    /\ tasks' = <<>>
    /\ projects' = <<>>
    /\ users' = <<>>
    /\ task_stages' = <<>>
    /\ project_stages' = <<>>

(***************************************************************************)
(* get_tasks_data, steps 1-6b: the id sets and the RPC calls               *)
(***************************************************************************)
Range(seq) == { seq[i] : i \in 1..Len(seq) }

project_ids ==
    { t.project_id[1] : t \in { x \in Range(tasks) : Truthy(x.project_id) } }

user_ids == UNION { Range(t.user_ids) : t \in Range(tasks) }

task_stage_ids ==
    { t.stage_id[1] : t \in { x \in Range(tasks) : Truthy(x.stage_id) } }

project_stage_ids ==
    { p.stage_id[1] : p \in { x \in Range(projects) : Truthy(x.stage_id) } }

\* line 113 left out: any answer of authenticate is taken as a session id
AuthRejected_Never(u) == FALSE

AuthRejected(u) == u = 0

Authenticate ==
    /\ pc = "authenticate"
    /\ \E outcome \in RpcOutcomes, u \in UidValues :
         /\ json_rpc("common", "authenticate", {}, outcome,
                     IF u = 0 THEN <<>> ELSE <<u>>)
         /\ IF outcome # "ok"
            THEN Except(outcome)
            ELSE IF AuthRejected(u)
            THEN Except("Failed to authenticate")
            ELSE /\ uid' = u
                 /\ pc' = "search_read_tasks"
                 /\ UNCHANGED <<result, tasks, projects, users, task_stages,
                                project_stages>>
    /\ UNCHANGED <<current_time, helper_vars>>

SearchReadTasks ==
    /\ pc = "search_read_tasks"
    /\ \E outcome \in RpcOutcomes, fetched \in TaskLists :
         /\ json_rpc("project.task", "search_read", {}, outcome, fetched)
         /\ IF outcome # "ok"
            THEN Except(outcome)
            ELSE /\ tasks' = fetched
                 /\ pc' = "read_projects"
                 /\ UNCHANGED <<result, uid, projects, users, task_stages,
                                project_stages>>
    /\ UNCHANGED <<current_time, helper_vars>>

ReadProjects ==
    /\ pc = "read_projects"
    /\ \E outcome \in RpcOutcomes,
          fetched \in ReadResponses(RemoteProjects, project_ids) :
         /\ json_rpc("project.project", "read", project_ids, outcome,
                     fetched)
         /\ IF outcome # "ok"
            THEN Except(outcome)
            ELSE /\ projects' = fetched
                 /\ pc' = "read_users"
                 /\ UNCHANGED <<result, uid, tasks, users, task_stages,
                                project_stages>>
    /\ UNCHANGED <<current_time, helper_vars>>

\* step 5, had it swallowed a failed call and gone on with no users
ReadUsers_Continue ==
    /\ pc = "read_users"
    /\ \E outcome \in RpcOutcomes,
          fetched \in ReadResponses(RemoteUsers, user_ids) :
         /\ json_rpc("res.users", "read", user_ids, outcome, fetched)
         /\ users' = IF outcome = "ok" THEN fetched ELSE <<>>
         /\ pc' = "read_task_stages"
         /\ UNCHANGED <<result, uid, tasks, projects, task_stages,
                        project_stages>>
    /\ UNCHANGED <<current_time, helper_vars>>

ReadUsers ==
    /\ pc = "read_users"
    /\ \E outcome \in RpcOutcomes,
          fetched \in ReadResponses(RemoteUsers, user_ids) :
         /\ json_rpc("res.users", "read", user_ids, outcome, fetched)
         /\ IF outcome # "ok"
            THEN Except(outcome)
            ELSE /\ users' = fetched
                 /\ pc' = "read_task_stages"
                 /\ UNCHANGED <<result, uid, tasks, projects, task_stages,
                                project_stages>>
    /\ UNCHANGED <<current_time, helper_vars>>

ReadTaskStages ==
    /\ pc = "read_task_stages"
    /\ \E outcome \in RpcOutcomes,
          fetched \in ReadResponses(RemoteTaskStages, task_stage_ids) :
         /\ json_rpc("project.task.type", "read", task_stage_ids, outcome,
                     fetched)
         /\ IF outcome # "ok"
            THEN Except(outcome)
            ELSE /\ task_stages' = fetched
                 /\ pc' = "read_project_stages"
                 /\ UNCHANGED <<result, uid, tasks, projects, users,
                                project_stages>>
    /\ UNCHANGED <<current_time, helper_vars>>

\* 215-216: project_stages = [] and no call when project_stage_ids is empty
SkipProjectStages ==
    /\ pc = "read_project_stages"
    /\ project_stage_ids = {}
    /\ project_stages' = <<>>
    /\ pc' = "process"
    /\ UNCHANGED <<calls, uid, tasks, projects, users, task_stages,
                   current_time, result, helper_vars>>

ReadProjectStages ==
    /\ pc = "read_project_stages"
    /\ project_stage_ids # {}
    /\ \E outcome \in RpcOutcomes,
          fetched \in ReadResponses(RemoteProjectStages, project_stage_ids) :
         /\ json_rpc("project.project.stage", "read", project_stage_ids,
                     outcome, fetched)
         /\ IF outcome # "ok"
            THEN Except(outcome)
            ELSE /\ project_stages' = fetched
                 /\ pc' = "process"
                 /\ UNCHANGED <<result, uid, tasks, projects, users,
                                task_stages>>
    /\ UNCHANGED <<current_time, helper_vars>>

(***************************************************************************)
(* get_tasks_data, step 7: the lookup maps (235-265)                       *)
(***************************************************************************)
\* dict.get(key, default)
Get(map, key, default) == IF key \in DOMAIN map THEN map[key] ELSE default

\* a dict comprehension over a list keeps, for each key, the last record
LastWithId(records, i) ==
    records[CHOOSE k \in 1..Len(records) :
              /\ records[k].id = i
              /\ \A j \in (k + 1)..Len(records) : records[j].id # i]

Ids(records) == { records[k].id : k \in 1..Len(records) }

\* line 237 with the fallback of line 277
ManagerOf_Unknown(proj) ==
    IF Truthy(proj.user_id) THEN proj.user_id[2] ELSE "Unknown"

ManagerOf(proj) ==
    IF Truthy(proj.user_id) THEN proj.user_id[2] ELSE "No Manager"

project_managers ==
    [i \in Ids(projects) |-> ManagerOf(LastWithId(projects, i))]

project_names == [i \in Ids(projects) |-> LastWithId(projects, i).name]

user_names == [i \in Ids(users) |-> LastWithId(users, i).name]

task_stage_names ==
    [i \in Ids(task_stages) |-> LastWithId(task_stages, i).name]

project_stage_names ==
    [i \in Ids(project_stages) |-> LastWithId(project_stages, i).name]

project_stage_mapping ==
    [i \in Ids(projects) |->
        LET proj == LastWithId(projects, i)
        IN IF Truthy(proj.stage_id) THEN proj.stage_id[1] ELSE None]

(***************************************************************************)
(* get_tasks_data, step 8: one task of the loop (274-355)                  *)
(***************************************************************************)
StateLabels ==
    ("01_in_progress" :> "In Progress") @@
    ("02_changes_requested" :> "Changes Requested") @@
    ("03_approved" :> "Approved") @@
    ("1_canceled" :> "Cancelled") @@
    ("1_done" :> "Done") @@
    ("04_waiting_normal" :> "Waiting")

\* f"User {uid}"
UserLabel(u) == "User " \o ToString(u)

\* datetime.fromisoformat(deadline.replace('Z', '+00:00')): a trailing Z
\* gives a timezone-aware datetime
fromisoformat(deadline) == Stamp(deadline.day, deadline.tod, deadline.z)

\* line 316 without its second condition
ComputesDeadlineFigures_DoneOnly(is_done, is_cancelled) == ~is_done

\* 316: the deadline figures are computed for open tasks only
ComputesDeadlineFigures(is_done, is_cancelled) == ~is_done /\ ~is_cancelled

\* 317: overdue when the deadline's date is before today's date
DeadlinePassed(deadline_dt, now) == date(deadline_dt) < date(now)

\* 322-323 call the date helpers, whose first line compares the two
\* datetimes: TypeError when one is naive and the other aware
TaskRaises(task, now) ==
    /\ Truthy(task.date_deadline)
    /\ ComputesDeadlineFigures(task.is_closed = TRUE, task.state = "1_canceled")
    /\ ~DeadlinePassed(fromisoformat(task.date_deadline), now)
    /\ dt_compare_raises(now, fromisoformat(task.date_deadline))

ProcessTask(task, now) ==
    LET project_id == IF Truthy(task.project_id) THEN task.project_id[1]
                      ELSE None
        task_stage_id == IF Truthy(task.stage_id) THEN task.stage_id[1]
                         ELSE None
        project_stage_id == Get(project_stage_mapping, project_id, None)
        deadline == task.date_deadline
        is_done == task.is_closed = TRUE
        is_cancelled == task.state = "1_canceled"
        has_deadline == Truthy(deadline)
        deadline_dt == IF has_deadline THEN fromisoformat(deadline) ELSE NoTime
        open == has_deadline /\ ComputesDeadlineFigures(is_done, is_cancelled)
        is_overdue == open /\ DeadlinePassed(deadline_dt, now)
        ahead == open /\ ~DeadlinePassed(deadline_dt, now)
    IN [id |-> task.id,
        name |-> task.name,
        project_name |-> Get(project_names, project_id, "No Project"),
        manager |-> Get(project_managers, project_id, "Unknown"),
        stage_id |-> task_stage_id,
        stage_name |-> Get(task_stage_names, task_stage_id, "No Stage"),
        project_stage_id |-> project_stage_id,
        project_stage_name |->
            Get(project_stage_names, project_stage_id, "No Project Stage"),
        deadline |-> deadline,
        assignees |->
            [k \in 1..Len(task.user_ids) |->
                Get(user_names, task.user_ids[k], UserLabel(task.user_ids[k]))],
        is_done |-> is_done,
        is_cancelled |-> is_cancelled,
        is_overdue |-> is_overdue,
        days_overdue |->
            IF is_overdue THEN date(now) - date(deadline_dt) ELSE 0,
        calendar_days_to_deadline |->
            IF ahead THEN calculate_calendar_days(now, deadline_dt) ELSE 0,
        working_days_to_deadline |->
            IF ahead THEN calculate_working_days(now, deadline_dt) ELSE 0,
        is_deadline_today |-> has_deadline /\ is_today(deadline_dt, now),
        is_deadline_weekend |-> has_deadline /\ is_weekend(deadline_dt),
        task_state |-> task.state,
        task_state_label |-> Get(StateLabels, task.state, "Unknown")]

ProcessedTasks(now) == [i \in 1..Len(tasks) |-> ProcessTask(tasks[i], now)]

(***************************************************************************)
(* get_tasks_data, step 8: the run-level counters (325-331)                *)
(***************************************************************************)
NoCounts == [done_count |-> 0, cancelled_count |-> 0, overdue_count |-> 0]

\* lines 326-331 with if in place of elif
CountTask_NoElif(counts, task) ==
    [done_count |-> counts.done_count + (IF task.is_done THEN 1 ELSE 0),
     cancelled_count |->
        counts.cancelled_count + (IF task.is_cancelled THEN 1 ELSE 0),
     overdue_count |->
        counts.overdue_count + (IF task.is_overdue THEN 1 ELSE 0)]

CountTask(counts, task) ==
    IF task.is_done
    THEN [counts EXCEPT !.done_count = @ + 1]
    ELSE IF task.is_cancelled
    THEN [counts EXCEPT !.cancelled_count = @ + 1]
    ELSE IF task.is_overdue
    THEN [counts EXCEPT !.overdue_count = @ + 1]
    ELSE counts

RECURSIVE CountTasks(_, _)
CountTasks(processed, counts) ==
    IF processed = <<>> THEN counts
    ELSE CountTasks(Tail(processed), CountTask(counts, Head(processed)))

(***************************************************************************)
(* get_tasks_data, step 9: the statistics per project stage (357-395)      *)
(***************************************************************************)
NoStageCounts ==
    [total |-> 0, done |-> 0, overdue |-> 0, in_progress |-> 0,
     cancelled |-> 0]

\* lines 372-379 testing is_cancelled before is_done
StageCategory_CancelledFirst(task) ==
    IF task.is_cancelled THEN "cancelled"
    ELSE IF task.is_done THEN "done"
    ELSE IF task.is_overdue THEN "overdue"
    ELSE "in_progress"

StageCategory(task) ==
    IF task.is_done THEN "done"
    ELSE IF task.is_cancelled THEN "cancelled"
    ELSE IF task.is_overdue THEN "overdue"
    ELSE "in_progress"

\* the stage a task is grouped under
StageKey(task) == task.project_stage_name

AddToStage(stage_stats, task) ==
    LET key == StageKey(task)
        entered == IF key \in DOMAIN stage_stats THEN stage_stats
                   ELSE stage_stats @@ (key :> NoStageCounts)
        category == StageCategory(task)
    IN [entered EXCEPT ![key] =
            [@ EXCEPT !.total = @ + 1, ![category] = @ + 1]]

RECURSIVE StageStats(_, _)
StageStats(processed, stage_stats) ==
    IF processed = <<>> THEN stage_stats
    ELSE StageStats(Tail(processed), AddToStage(stage_stats, Head(processed)))

\* truncation to one decimal in place of rounding
Round1_Truncate(count, total) == (count * 1000) \div total

\* round(count / total * 100, 1), in tenths: to the nearest tenth, a tie to
\* the even one
Round1(count, total) ==
    LET q == (count * 1000) \div total
        r == (count * 1000) % total
    IN IF 2 * r < total THEN q
       ELSE IF 2 * r > total THEN q + 1
       ELSE IF q % 2 = 0 THEN q ELSE q + 1

StagePercentages(stage_stats) ==
    [stage_name \in { n \in DOMAIN stage_stats : stage_stats[n].total > 0 } |->
        LET stats == stage_stats[stage_name]
        IN [total |-> stats.total,
            done_percentage |-> Round1(stats.done, stats.total),
            overdue_percentage |-> Round1(stats.overdue, stats.total),
            in_progress_percentage |-> Round1(stats.in_progress, stats.total),
            cancelled_percentage |-> Round1(stats.cancelled, stats.total),
            done_count |-> stats.done,
            overdue_count |-> stats.overdue,
            in_progress_count |-> stats.in_progress,
            cancelled_count |-> stats.cancelled]]

(***************************************************************************)
(* get_tasks_data, steps 7-9 and the return (235-407)                      *)
(***************************************************************************)
SuccessResult(processed_tasks) ==
    LET counts == CountTasks(processed_tasks, NoCounts)
    IN [tasks |-> processed_tasks,
        statistics |->
            [total |-> Len(processed_tasks),
             done |-> counts.done_count,
             cancelled |-> counts.cancelled_count,
             overdue |-> counts.overdue_count,
             in_progress |-> Len(processed_tasks) - counts.done_count
                             - counts.cancelled_count - counts.overdue_count],
        stage_statistics |->
            StagePercentages(StageStats(processed_tasks, <<>>))]

TypeErrorMessage == "can't compare offset-naive and offset-aware datetimes"

Process ==
    /\ pc = "process"
    /\ \E now \in NowValues :
         /\ current_time' = now
         /\ IF \E i \in 1..Len(tasks) : TaskRaises(tasks[i], now)
            THEN Except(TypeErrorMessage)
            ELSE /\ result' = SuccessResult(ProcessedTasks(now))
                 /\ pc' = "returned"
                 /\ UNCHANGED <<uid, tasks, projects, users, task_stages,
                                project_stages>>
    /\ UNCHANGED <<calls, helper_vars>>

(***************************************************************************)
(* The run                                                                 *)
(***************************************************************************)
NoWd == [pc |-> "idle", start_date |-> NoTime, end_date |-> NoTime,
         working_days |-> 0, calendar_days |-> 0]

NoPct == [pc |-> "idle", stage_stats |-> <<>>, stage_percentages |-> <<>>]

RunIdle ==
    /\ calls = <<>>
    /\ uid = 0
    /\ tasks = <<>>
    /\ projects = <<>>
    /\ users = <<>>
    /\ task_stages = <<>>
    /\ project_stages = <<>>
    /\ current_time = NoTime
    /\ result = NoResult

Init ==
    /\ pc = "authenticate"
    /\ RunIdle
    /\ wd = NoWd
    /\ pct = NoPct

Next ==
    \/ Authenticate
    \/ SearchReadTasks
    \/ ReadProjects
    \/ ReadUsers
    \/ ReadTaskStages
    \/ SkipProjectStages
    \/ ReadProjectStages
    \/ Process

Spec == Init /\ [][Next]_vars

(***************************************************************************)
(* The date helpers called on their own                                    *)
(***************************************************************************)
Stamps == { Stamp(d, t, FALSE) : d \in 0..MaxDay, t \in 0..MaxTod }

InitDays ==
    /\ pc = "idle"
    /\ RunIdle
    /\ pct = NoPct
    /\ \E a \in Stamps, b \in Stamps :
         wd = [pc |-> "call", start_date |-> a, end_date |-> b,
               working_days |-> 0, calendar_days |-> 0]

CallDateHelpers ==
    /\ wd.pc = "call"
    /\ wd' = [wd EXCEPT
                !.pc = "returned",
                !.working_days =
                    calculate_working_days(wd.start_date, wd.end_date),
                !.calendar_days =
                    calculate_calendar_days(wd.start_date, wd.end_date)]
    /\ UNCHANGED <<run_vars, pct>>

NextDays == CallDateHelpers

SpecDays == InitDays /\ [][NextDays]_vars

(***************************************************************************)
(* The percentage loop (381-395) on its own: one stage whose counters add  *)
(* up to its total, as the grouping loop leaves them                       *)
(***************************************************************************)
StageCounts ==
    { [total |-> d + o + i + c, done |-> d, overdue |-> o, in_progress |-> i,
       cancelled |-> c]
      : <<d, o, i, c>> \in
          { q \in (0..MaxStageTotal) \X (0..MaxStageTotal)
                   \X (0..MaxStageTotal) \X (0..MaxStageTotal) :
              q[1] + q[2] + q[3] + q[4] <= MaxStageTotal } }

InitStages ==
    /\ pc = "idle"
    /\ RunIdle
    /\ wd = NoWd
    /\ \E counts \in StageCounts :
         pct = [pc |-> "loop", stage_stats |-> ("Running" :> counts),
                stage_percentages |-> <<>>]

ComputePercentages ==
    /\ pct.pc = "loop"
    /\ pct' = [pct EXCEPT !.pc = "done",
                          !.stage_percentages = StagePercentages(pct.stage_stats)]
    /\ UNCHANGED <<run_vars, wd>>

NextStages == ComputePercentages

SpecStages == InitStages /\ [][NextStages]_vars

(***************************************************************************)
(* Properties                                                              *)
(***************************************************************************)
Returned == pc = "returned"
Failed == Returned /\ "error" \in DOMAIN result
Succeeded == Returned /\ "error" \notin DOMAIN result

ZeroStatistics ==
    [total |-> 0, done |-> 0, cancelled |-> 0, overdue |-> 0,
     in_progress |-> 0]

\* the input tasks by the category the priority done > cancelled > overdue >
\* in_progress gives them, overdue taken from the enriched task
DoneTasks == { i \in 1..Len(tasks) : tasks[i].is_closed }

CancelledTasks ==
    { i \in 1..Len(tasks) : tasks[i].state = "1_canceled" } \ DoneTasks

OverdueTasks ==
    { i \in 1..Len(tasks) : result.tasks[i].is_overdue }
        \ (DoneTasks \cup CancelledTasks)

InProgressTasks ==
    (1..Len(tasks)) \ (DoneTasks \cup CancelledTasks \cup OverdueTasks)

\* C1: in every successful result each fetched task is counted in exactly
\* one of done, cancelled, overdue, in_progress, by the priority done >
\* cancelled > overdue > in_progress (a closed task in state 1_canceled is
\* done only); total is the number of fetched tasks and the sum of the four
\* counters, and in_progress is not negative.
C1_OneCategoryPerTask ==
    Succeeded =>
        LET st == result.statistics
        IN /\ Len(result.tasks) = Len(tasks)
           /\ st.total = Len(tasks)
           /\ st.done = Cardinality(DoneTasks)
           /\ st.cancelled = Cardinality(CancelledTasks)
           /\ st.overdue = Cardinality(OverdueTasks)
           /\ st.in_progress = Cardinality(InProgressTasks)
           /\ st.in_progress >= 0
           /\ st.total = st.done + st.cancelled + st.overdue + st.in_progress

\* a successful run with a closed task in state 1_canceled (counted as done)
\* next to an open task that is overdue
C1_Witness ==
    /\ Succeeded
    /\ \E i \in 1..Len(tasks) :
         tasks[i].is_closed /\ tasks[i].state = "1_canceled"
    /\ result.statistics.done = 1
    /\ result.statistics.overdue = 1
    /\ result.statistics.cancelled = 0

\* the step that ends a run, seen from outside: which failure it met
CallFailed == Len(calls') = Len(calls) + 1 /\ calls'[Len(calls')].outcome # "ok"

SessionRejected ==
    /\ pc = "authenticate"
    /\ Len(calls') = 1
    /\ calls'[1].outcome = "ok"
    /\ calls'[1].returned = 0

\* an open task whose deadline is timezone-aware and not before today
ProcessingRaised ==
    /\ pc = "process"
    /\ \E i \in 1..Len(tasks) :
         /\ ~tasks[i].is_closed
         /\ tasks[i].state # "1_canceled"
         /\ tasks[i].date_deadline.z
         /\ tasks[i].date_deadline.day >= current_time'.day

FailureMessage ==
    IF CallFailed THEN calls'[Len(calls')].outcome
    ELSE IF SessionRejected THEN "Failed to authenticate"
    ELSE "can't compare offset-naive and offset-aware datetimes"

\* C2: a step in which authentication, an RPC call or the processing fails
\* ends the run with tasks = [], all five counters 0, stage_statistics = {}
\* and the failure's message as error; a run that ends without a failure
\* returns a result with no error field.
C2_FailureGivesEmptyPayload ==
    [][ /\ (CallFailed \/ SessionRejected \/ ProcessingRaised) =>
            /\ pc' = "returned"
            /\ result' = [tasks |-> <<>>, statistics |-> ZeroStatistics,
                          stage_statistics |-> <<>>,
                          error |-> FailureMessage]
        /\ (pc' = "returned" /\ pc # "returned"
              /\ ~(CallFailed \/ SessionRejected \/ ProcessingRaised)) =>
            DOMAIN result' = {"tasks", "statistics", "stage_statistics"}
      ]_vars

\* a run that fetched tasks and all reference data and then failed in the
\* processing
C2_Witness ==
    /\ Failed
    /\ Len(calls) >= 5
    /\ \A i \in 1..Len(calls) : calls[i].outcome = "ok"
    /\ calls[2].returned >= 2
    /\ result.tasks = <<>>
    /\ result.statistics.total = 0

CallOrder ==
    << <<"common", "authenticate">>,
       <<"project.task", "search_read">>,
       <<"project.project", "read">>,
       <<"res.users", "read">>,
       <<"project.task.type", "read">>,
       <<"project.project.stage", "read">> >>

\* C3: the calls of a run are a prefix of authenticate, search_read tasks,
\* read projects, read users, read task stages, read project stages, each
\* issued once, and every call but the last one issued has succeeded (no
\* call follows a failed one).
C3_CallsInOrderNoRetry ==
    /\ Len(calls) <= Len(CallOrder)
    /\ \A i \in 1..Len(calls) :
         /\ <<calls[i].model, calls[i].method>> = CallOrder[i]
         /\ i < Len(calls) => calls[i].outcome = "ok"

\* a successful run that issued all six calls, the project stage read
\* included
C3_Witness ==
    /\ Len(calls) = 6
    /\ \A i \in 1..6 : calls[i].outcome = "ok"
    /\ Succeeded

\* C4: no read call carries an empty id list (the read of a collection no
\* fetched record refers to is skipped).
C4_NoReadWithEmptyIds ==
    \A i \in 1..Len(calls) : calls[i].method = "read" => calls[i].ids # {}

\* C5: when authenticate succeeds as a call but returns a falsy session id,
\* no further call is issued and the run returns the error payload.
C5_FalsySessionIsFailure ==
    (Len(calls) >= 1 /\ calls[1].outcome = "ok" /\ calls[1].returned = 0) =>
        /\ Len(calls) = 1
        /\ Returned
        /\ result = [tasks |-> <<>>, statistics |-> ZeroStatistics,
                     stage_statistics |-> <<>>,
                     error |-> "Failed to authenticate"]

C5_Witness ==
    /\ Len(calls) = 1
    /\ calls[1].outcome = "ok"
    /\ calls[1].returned = 0
    /\ Failed

\* C6: an enriched task is overdue exactly when its task is neither done nor
\* cancelled and the deadline's date is before today's; then days_overdue is
\* the difference of the dates (at least 1) and both days-to-deadline
\* figures are 0; a done or cancelled task is never overdue and has all
\* three figures 0.
C6_OverdueOnlyForOpenTasks ==
    Succeeded =>
        \A i \in 1..Len(tasks) :
            LET e == result.tasks[i]
                open == ~tasks[i].is_closed /\ tasks[i].state # "1_canceled"
                passed == tasks[i].date_deadline.day < current_time.day
            IN /\ e.is_overdue = (open /\ passed)
               /\ e.is_overdue =>
                    /\ e.days_overdue
                         = current_time.day - tasks[i].date_deadline.day
                    /\ e.days_overdue >= 1
                    /\ e.calendar_days_to_deadline = 0
                    /\ e.working_days_to_deadline = 0
               /\ ~open =>
                    /\ ~e.is_overdue
                    /\ e.days_overdue = 0
                    /\ e.calendar_days_to_deadline = 0
                    /\ e.working_days_to_deadline = 0

\* now = 2024-06-10: an open task due 2024-06-08 is two days overdue, next
\* to a cancelled task with the same passed deadline
C6_Witness ==
    /\ Succeeded
    /\ current_time.day = 0
    /\ \E i \in 1..Len(tasks) :
         result.tasks[i].is_overdue /\ result.tasks[i].days_overdue = 2
    /\ \E i \in 1..Len(tasks) :
         /\ tasks[i].state = "1_canceled"
         /\ ~tasks[i].is_closed
         /\ tasks[i].date_deadline.day = -2

\* the Monday-to-Friday dates in the half-open range [a.date, b.date)
WeekdayDates(a, b) == { d \in a.day..(b.day - 1) : d % 7 < 5 }

\* C7: calculate_working_days(a, b) is 0 when a >= b and otherwise the
\* number of Monday-to-Friday dates in [a.date, b.date), whatever the times
\* of day; from Monday 2024-06-10 to Friday 2024-06-14 it is 4, as
\* calculate_calendar_days.
C7_WorkingDaysCountDates ==
    wd.pc = "returned" =>
        /\ wd.working_days =
             IF dt_ge(wd.start_date, wd.end_date) THEN 0
             ELSE Cardinality(WeekdayDates(wd.start_date, wd.end_date))
        /\ (wd.start_date.day = 0 /\ wd.end_date.day = 4) =>
             (wd.working_days = 4 /\ wd.calendar_days = 4)

StageNames == { result.tasks[i].project_stage_name : i \in 1..Len(result.tasks) }

TasksOfStage(name) ==
    { i \in 1..Len(tasks) : result.tasks[i].project_stage_name = name }

RECURSIVE SumOverStages(_, _)
SumOverStages(names, field) ==
    IF names = {} THEN 0
    ELSE LET n == CHOOSE x \in names : TRUE
         IN result.stage_statistics[n][field]
            + SumOverStages(names \ {n}, field)

\* C8: a successful result has one stage_statistics entry per distinct
\* project_stage_name of its tasks (none without tasks, none with total 0);
\* an entry's total is the sum of its four counts, each count follows the
\* classification of the run-level counters, and the entries' counts and
\* totals add up to the statistics counters.
C8_StageStatisticsConsistent ==
    Succeeded =>
        LET ss == result.stage_statistics
            st == result.statistics
        IN /\ DOMAIN ss = StageNames
           /\ \A n \in DOMAIN ss :
                /\ ss[n].total > 0
                /\ ss[n].total = Cardinality(TasksOfStage(n))
                /\ ss[n].total = ss[n].done_count + ss[n].cancelled_count
                                 + ss[n].overdue_count + ss[n].in_progress_count
                /\ ss[n].done_count
                     = Cardinality(TasksOfStage(n) \cap DoneTasks)
                /\ ss[n].cancelled_count
                     = Cardinality(TasksOfStage(n) \cap CancelledTasks)
                /\ ss[n].overdue_count
                     = Cardinality(TasksOfStage(n) \cap OverdueTasks)
                /\ ss[n].in_progress_count
                     = Cardinality(TasksOfStage(n) \cap InProgressTasks)
           /\ SumOverStages(DOMAIN ss, "total") = st.total
           /\ SumOverStages(DOMAIN ss, "done_count") = st.done
           /\ SumOverStages(DOMAIN ss, "cancelled_count") = st.cancelled
           /\ SumOverStages(DOMAIN ss, "overdue_count") = st.overdue
           /\ SumOverStages(DOMAIN ss, "in_progress_count") = st.in_progress

\* two stages, one of them holding a closed task in state 1_canceled
C8_Witness ==
    /\ Succeeded
    /\ Cardinality(DOMAIN result.stage_statistics) = 2
    /\ \E i \in 1..Len(tasks) :
         tasks[i].is_closed /\ tasks[i].state = "1_canceled"

Distance(x, y) == IF x >= y THEN x - y ELSE y - x

PercentageFields ==
    << <<"done_percentage", "done">>, <<"overdue_percentage", "overdue">>,
       <<"in_progress_percentage", "in_progress">>,
       <<"cancelled_percentage", "cancelled">> >>

\* C9: in every stage entry each percentage is count / total * 100 rounded
\* to the nearest tenth, and the four percentages add up to 100 within 0.4.
C9_PercentagesRounded ==
    pct.pc = "done" =>
        \A n \in DOMAIN pct.stage_percentages :
            LET e == pct.stage_percentages[n]
                stats == pct.stage_stats[n]
            IN /\ \A k \in 1..Len(PercentageFields) :
                    2 * Distance(e[PercentageFields[k][1]] * stats.total,
                                 1000 * stats[PercentageFields[k][2]])
                        <= stats.total
               /\ Distance(e.done_percentage + e.overdue_percentage
                           + e.in_progress_percentage + e.cancelled_percentage,
                           1000) <= 4

\* a stage of three tasks, one done and two overdue: 33.3 and 66.7
C9_Witness ==
    /\ pct.pc = "done"
    /\ "Running" \in DOMAIN pct.stage_percentages
    /\ pct.stage_stats["Running"].total = 3
    /\ pct.stage_percentages["Running"].done_percentage = 333
    /\ pct.stage_percentages["Running"].overdue_percentage = 667

FetchedProject(id) == { p \in Range(projects) : p.id = id }
FetchedUser(id) == { u \in Range(users) : u.id = id }
FetchedTaskStage(id) == { x \in Range(task_stages) : x.id = id }

\* C10: a task whose project was fetched gets the project's name and its
\* manager's name, or "No Manager" when the project has no manager; a task
\* whose project was not fetched gets manager "Unknown", project_name "No
\* Project", project_stage_id None and project_stage_name "No Project
\* Stage"; an assignee who was not fetched is "User {id}" and a task stage
\* that is missing is "No Stage".
C10_LookupFallbacks ==
    Succeeded =>
        \A i \in 1..Len(tasks) :
            LET t == tasks[i]
                e == result.tasks[i]
            IN /\ \A p \in FetchedProject(t.project_id[1]) :
                    /\ e.project_name = p.name
                    /\ e.manager = IF p.user_id = <<>> THEN "No Manager"
                                   ELSE p.user_id[2]
               /\ FetchedProject(t.project_id[1]) = {} =>
                    /\ e.manager = "Unknown"
                    /\ e.project_name = "No Project"
                    /\ e.project_stage_id = 0
                    /\ e.project_stage_name = "No Project Stage"
               /\ Len(e.assignees) = Len(t.user_ids)
               /\ \A k \in 1..Len(t.user_ids) :
                    /\ \A u \in FetchedUser(t.user_ids[k]) :
                         e.assignees[k] = u.name
                    /\ (FetchedUser(t.user_ids[k]) = {} /\ t.user_ids[k] = 1) =>
                         e.assignees[k] = "User 1"
               /\ (t.stage_id = <<>> \/ FetchedTaskStage(t.stage_id[1]) = {}) =>
                    e.stage_name = "No Stage"

\* a task of a project that was not fetched, with an assignee who was not
\* fetched, next to a task of a fetched project that has no manager
C10_Witness ==
    /\ Succeeded
    /\ \E i \in 1..Len(tasks) :
         /\ FetchedProject(tasks[i].project_id[1]) = {}
         /\ result.tasks[i].manager = "Unknown"
         /\ result.tasks[i].assignees = <<"User 1">>
    /\ \E i \in 1..Len(tasks) :
         /\ FetchedProject(tasks[i].project_id[1]) # {}
         /\ result.tasks[i].manager = "No Manager"

====
